---- MODULE Spec2Model ----
(***************************************************************************)
(* Terraform HTTP state backend of nahcloud-server: the tfstate handlers   *)
(* (api/router.go), the State Protocol Engine (service/tfstate.go) and the *)
(* metadata repository they run on (storage/sqlite).  Every SQL statement  *)
(* is one atomic step; a handler is the sequence of its statements, so     *)
(* concurrent requests interleave between statements.                      *)
(***************************************************************************)
EXTENDS Integers, Sequences, FiniteSets, TLC

\* ---------------------------------------------------------------- bounds
NumProcs == 2
MaxUUID == 6

Procs == 1..NumProcs
Pair == {1, 2}
UUIDs == 1..MaxUUID
NoRow == 0

\* ---------------------------------------------------------------- inputs
\* Strings that are concatenated are sequences of tokens; ".lock" is the
\* suffix tfStateLockPath appends.
StateIDs == { <<"a">>, <<"a", ".lock">> }

\* Query parameter ID ("" when absent).
ProvidedIDs == { "", "A", "B" }

\* Request bodies / stored values, as raw texts.
LockA == "{\"ID\":\"A\"}"
LockA2 == "{\"ID\":\"A\",\"Who\":\"x\"}"
LockB == "{\"ID\":\"B\"}"
NoID == "{\"version\":1}"
Junk == "not-json"
Bodies == { LockA, LockA2, LockB, NoID, Junk }

Methods == { "GET", "POST", "DELETE", "LOCK", "UNLOCK" }

\* The inputs of concurrent requests: one state id and two clients, each
\* with its own lock payload and ID. A request that fails authentication
\* touches nothing, so one method stands for all of them there.
ConcIDs == { <<"a">> }
ConcProvided == { "A", "B" }
ConcBodies == { LockA, LockB }
ConcMethods == { "POST" }

\* The error codes of domain.NahError; a response whose body is one of them
\* stands for the JSON error object writeError encodes.
ErrorCodes == { "NOT_FOUND", "ALREADY_EXISTS", "INVALID_INPUT",
                "FOREIGN_KEY_VIOLATION", "INTERNAL_ERROR", "UNAUTHORIZED",
                "TOO_MANY_REQUESTS", "SERVICE_UNAVAILABLE" }

\* ------------------------------------------------------- pure functions
\* json.Unmarshal into domain.TFStateLock: fails on text that is not JSON,
\* otherwise keeps the ID field ("" when the object has none) and drops
\* what the caller does not read.
JSONUnmarshal(raw) ==
    CASE raw = LockA  -> [ok |-> TRUE, ID |-> "A"]
      [] raw = LockA2 -> [ok |-> TRUE, ID |-> "A"]
      [] raw = LockB  -> [ok |-> TRUE, ID |-> "B"]
      [] raw = NoID   -> [ok |-> TRUE, ID |-> ""]
      [] OTHER        -> [ok |-> FALSE, ID |-> ""]

tfStatePath(stateID) == <<"tfstate/">> \o stateID

tfStateLockPath(stateID) == <<"tfstate/">> \o stateID \o <<".lock">>

HasPrefix(s, prefix) ==
    /\ Len(prefix) <= Len(s)
    /\ SubSeq(s, 1, Len(prefix)) = prefix

\* MetadataRepository.List: the rows whose path starts with the prefix.
List(rows, prefix) == { r \in rows : HasPrefix(r.path, prefix) }

\* A lookup that keeps every listed row, without the exact-path filter.
metadataByExactPath_PrefixOnly(rows, path) == List(rows, path)

\* metadataByExactPath: the listed rows with exactly this path.
metadataByExactPath(rows, path) == { r \in List(rows, path) : r.path = path }

\* MetadataRepository.pathExists: SELECT COUNT(*) ... WHERE path = ?
pathExists(rows, path) == Cardinality({ r \in rows : r.path = path }) > 0

\* MetadataRepository.GetByID
GetByID(rows, id) == { r \in rows : r.id = id }

\* A metadata table declared without UNIQUE on path: INSERT never fails.
UniquePathOK_NoConstraint(rows, path) == TRUE

\* The metadata table's UNIQUE constraint on path, checked by INSERT.
UniquePathOK(rows, path) == \A r \in rows : r.path # path

\* GetTFState: value of the State Entry, or NotFound.
GetTFState(rows, stateID) ==
    LET ms == metadataByExactPath(rows, tfStatePath(stateID))
    IN  IF ms = {} THEN [found |-> FALSE, value |-> ""]
        ELSE [found |-> TRUE, value |-> (CHOOSE r \in ms : TRUE).value]

\* GetTFStateLock: raw payload and parsed lock (parsed = FALSE for nil).
GetTFStateLock(rows, stateID) ==
    LET ms == metadataByExactPath(rows, tfStateLockPath(stateID))
    IN  IF ms = {} THEN [found |-> FALSE, raw |-> "", parsed |-> FALSE, ID |-> ""]
        ELSE LET raw == (CHOOSE r \in ms : TRUE).value
                 li  == JSONUnmarshal(raw)
             IN  [found |-> TRUE, raw |-> raw, parsed |-> li.ok, ID |-> li.ID]

\* A lock check that only refuses a missing ID and never compares IDs.
LockRefuses_NoIDCompare(rows, stateID, provided) ==
    LET l == GetTFStateLock(rows, stateID)
    IN  /\ l.found
        /\ l.parsed
        /\ provided = ""

\* A lock check that lets a request without ID through.
LockRefuses_AbsentIDPasses(rows, stateID, provided) ==
    LET l == GetTFStateLock(rows, stateID)
    IN  /\ l.found
        /\ l.parsed
        /\ (provided # "" /\ provided # l.ID)

\* The lock check of TFStatePost / TFStateDelete: TRUE when the request is
\* refused with 423.
LockRefuses(rows, stateID, provided) ==
    LET l == GetTFStateLock(rows, stateID)
    IN  /\ l.found
        /\ l.parsed
        /\ (provided = "" \/ provided # l.ID)

\* A payload validation that accepts any JSON object, with or without ID.
ValidLockPayload_AnyJSON(body) == JSONUnmarshal(body).ok

\* The payload validation of TFStateLock.
ValidLockPayload(body) ==
    LET li == JSONUnmarshal(body) IN li.ok /\ li.ID # ""

\* ------------------------------------------------------------ chaos engine
\* The generator is a stream of draws fixed by the seed: a seed is the stream
\* itself, StreamLen draws that repeat. A draw is a number in 0..Scale-1;
\* read as Float64 it stands for draw/Scale, and an error rate r stands for
\* r/Scale, so that Scale is the rate 1.0.
StreamLen == 2
Scale == 3

Raws == 0..(Scale - 1)
Seeds == [1..StreamLen -> Raws]

\* *LatencyRange: nil or {Min, Max}.
NilRange == [set |-> FALSE, Min |-> 0, Max |-> 0]

LatencyRange(min, max) == [set |-> TRUE, Min |-> min, Max |-> max]

\* rand.Rand: nil, or a source and the position of its next draw.
NilRng == [live |-> FALSE, src |-> <<>>, pos |-> 0]

\* NewChaosServiceWithConfig: the generator exists only when chaos is enabled.
NewChaosServiceWithConfig(cfg) ==
    IF cfg.Enabled THEN [live |-> TRUE, src |-> cfg.Seed, pos |-> 1]
    ELSE NilRng

\* One draw consumed from the source.
Advance(g) == [g EXCEPT !.pos = (g.pos % StreamLen) + 1]

\* rng.Float64(): the next draw, in units of 1/Scale.
Float64(g) == g.src[g.pos]

\* rng.Intn(n): the next draw reduced to 0..n-1.
Intn(g, n) == g.src[g.pos] % n

RECURSIVE Sum(_)
Sum(ws) == IF ws = <<>> THEN 0 ELSE Head(ws) + Sum(Tail(ws))

\* strconv.Atoi on the header values the requests carry.
Atoi(h) ==
    CASE h = "0" -> [ok |-> TRUE, n |-> 0]
      [] h = "2" -> [ok |-> TRUE, n |-> 2]
      [] OTHER   -> [ok |-> FALSE, n |-> 0]

\* select on time.After(ms) and ctx.Done(): the time actually slept, when
\* the context is done after ctxDone milliseconds (never, if negative).
Sleep(ms, ctxDone) ==
    IF ctxDone >= 0 /\ ctxDone < ms THEN ctxDone ELSE ms

\* The domain error maybeInjectError builds for a selected status code.
ErrorOf(errorCode) ==
    CASE errorCode = 429 -> "TOO_MANY_REQUESTS"
      [] errorCode = 500 -> "INTERNAL_ERROR"
      [] errorCode = 503 -> "SERVICE_UNAVAILABLE"
      [] OTHER           -> "INTERNAL_ERROR"

\* A selectWeightedErrorType whose cumulative-weight test is target <=
\* currentWeight.
selectWeightedErrorType_InclusiveBound(cfg, g) ==
    LET types       == cfg.ErrorTypes
        weights     == cfg.ErrorWeights
        totalWeight == Sum(weights)
        target      == Intn(g, totalWeight)
        hits        == { i \in 1..Len(weights) : target <= Sum(SubSeq(weights, 1, i)) }
    IN  IF Len(types) = 0
        THEN [code |-> 500, rng |-> g, draws |-> 0]
        ELSE IF Len(weights) # Len(types)
        THEN [code |-> types[Intn(g, Len(types)) + 1], rng |-> Advance(g), draws |-> 1]
        ELSE IF totalWeight = 0
        THEN [code |-> types[1], rng |-> g, draws |-> 0]
        ELSE [code |-> IF hits = {} THEN types[1]
                       ELSE types[CHOOSE i \in hits : \A j \in hits : i <= j],
              rng |-> Advance(g), draws |-> 1]

\* selectWeightedErrorType: the selected status code, the generator after
\* the selection and the number of draws it took.
selectWeightedErrorType(cfg, g) ==
    LET types       == cfg.ErrorTypes
        weights     == cfg.ErrorWeights
        totalWeight == Sum(weights)
        target      == Intn(g, totalWeight)
        hits        == { i \in 1..Len(weights) : target < Sum(SubSeq(weights, 1, i)) }
    IN  IF Len(types) = 0
        THEN [code |-> 500, rng |-> g, draws |-> 0]
        ELSE IF Len(weights) # Len(types)
        THEN [code |-> types[Intn(g, Len(types)) + 1], rng |-> Advance(g), draws |-> 1]
        ELSE IF totalWeight = 0
        THEN [code |-> types[1], rng |-> g, draws |-> 0]
        ELSE [code |-> IF hits = {} THEN types[1]
                       ELSE types[CHOOSE i \in hits : \A j \in hits : i <= j],
              rng |-> Advance(g), draws |-> 1]

\* An error injection that skips the draw only for a negative rate.
maybeInjectError_NoZeroGuard(cfg, g, errorRate) ==
    IF errorRate < 0
    THEN [err |-> "", rng |-> g, draws |-> 0]
    ELSE IF Float64(g) > errorRate
    THEN [err |-> "", rng |-> Advance(g), draws |-> 1]
    ELSE LET sel == selectWeightedErrorType(cfg, Advance(g))
         IN  [err |-> ErrorOf(sel.code), rng |-> sel.rng, draws |-> 1 + sel.draws]

\* maybeInjectError: the injected error ("" for nil), the generator after
\* the step and the number of draws it took.
maybeInjectError(cfg, g, errorRate) ==
    IF errorRate <= 0
    THEN [err |-> "", rng |-> g, draws |-> 0]
    ELSE IF Float64(g) > errorRate
    THEN [err |-> "", rng |-> Advance(g), draws |-> 1]
    ELSE LET sel == selectWeightedErrorType(cfg, Advance(g))
         IN  [err |-> ErrorOf(sel.code), rng |-> sel.rng, draws |-> 1 + sel.draws]

\* An applyLatency that draws its offset in [0, max-min).
applyLatency_ExclusiveMax(cfg, g, r, resourceRange) ==
    LET ms           == Atoi(r.latency)
        latencyRange == IF resourceRange.set THEN resourceRange
                        ELSE cfg.GlobalLatencyRange
        drawn        == latencyRange.Max > latencyRange.Min
        latency      == latencyRange.Min +
                          (IF drawn
                           THEN Intn(g, latencyRange.Max - latencyRange.Min)
                           ELSE 0)
    IN  IF r.latency # "" /\ ms.ok /\ ms.n > 0
        THEN [latency |-> ms.n, slept |-> Sleep(ms.n, r.ctxDone),
              rng |-> g, draws |-> 0]
        ELSE IF ~latencyRange.set
        THEN [latency |-> 0, slept |-> 0, rng |-> g, draws |-> 0]
        ELSE [latency |-> latency,
              slept |-> IF latency > 0 THEN Sleep(latency, r.ctxDone) ELSE 0,
              rng |-> IF drawn THEN Advance(g) ELSE g,
              draws |-> IF drawn THEN 1 ELSE 0]

\* applyLatency: the latency decided, the time slept, the generator after
\* the step and the number of draws it took. r is the request: its
\* X-Nah-Latency header and the time after which its context is done.
applyLatency(cfg, g, r, resourceRange) ==
    LET ms           == Atoi(r.latency)
        latencyRange == IF resourceRange.set THEN resourceRange
                        ELSE cfg.GlobalLatencyRange
        drawn        == latencyRange.Max > latencyRange.Min
        latency      == latencyRange.Min +
                          (IF drawn
                           THEN Intn(g, latencyRange.Max - latencyRange.Min + 1)
                           ELSE 0)
    IN  IF r.latency # "" /\ ms.ok /\ ms.n > 0
        THEN [latency |-> ms.n, slept |-> Sleep(ms.n, r.ctxDone),
              rng |-> g, draws |-> 0]
        ELSE IF ~latencyRange.set
        THEN [latency |-> 0, slept |-> 0, rng |-> g, draws |-> 0]
        ELSE [latency |-> latency,
              slept |-> IF latency > 0 THEN Sleep(latency, r.ctxDone) ELSE 0,
              rng |-> IF drawn THEN Advance(g) ELSE g,
              draws |-> IF drawn THEN 1 ELSE 0]

\* An Apply call that returns nil at once.
NoChaos(g) ==
    [err |-> "", latency |-> 0, slept |-> 0, rng |-> g, ldraws |-> 0, edraws |-> 0]

\* Latency followed by error injection, as the three Apply functions do it.
LatencyThenError(cfg, g, r, resourceRange, errorRate) ==
    LET l == applyLatency(cfg, g, r, resourceRange)
        e == maybeInjectError(cfg, l.rng, errorRate)
    IN  [err |-> e.err, latency |-> l.latency, slept |-> l.slept,
         rng |-> e.rng, ldraws |-> l.draws, edraws |-> e.draws]

\* An ApplyProjectsChaos that applies the latency before it looks at the
\* bypass header.
ApplyProjectsChaos_LatencyBeforeBypass(cfg, g, r, method) ==
    IF ~cfg.Enabled THEN NoChaos(g)
    ELSE IF r.noChaos = "true"
    THEN LatencyThenError(cfg, g, r, cfg.ProjectsLatencyRange, 0)
    ELSE LatencyThenError(cfg, g, r, cfg.ProjectsLatencyRange,
                          IF method = "GET" /\ cfg.ProjectsGetErrorRate > 0
                          THEN cfg.ProjectsGetErrorRate
                          ELSE cfg.ProjectsErrorRate)

\* ApplyProjectsChaos
ApplyProjectsChaos(cfg, g, r, method) ==
    IF ~cfg.Enabled THEN NoChaos(g)
    ELSE IF r.noChaos = "true" THEN NoChaos(g)
    ELSE LatencyThenError(cfg, g, r, cfg.ProjectsLatencyRange,
                          IF method = "GET" /\ cfg.ProjectsGetErrorRate > 0
                          THEN cfg.ProjectsGetErrorRate
                          ELSE cfg.ProjectsErrorRate)

\* An ApplyInstancesChaos that honours a forced latency while disabled.
ApplyInstancesChaos_ForcedWhenDisabled(cfg, g, r) ==
    IF ~cfg.Enabled
    THEN [NoChaos(g) EXCEPT !.latency = Atoi(r.latency).n,
                            !.slept = Atoi(r.latency).n]
    ELSE IF r.noChaos = "true" THEN NoChaos(g)
    ELSE LatencyThenError(cfg, g, r, cfg.InstancesLatencyRange,
                          cfg.InstancesErrorRate)

\* ApplyInstancesChaos
ApplyInstancesChaos(cfg, g, r) ==
    IF ~cfg.Enabled THEN NoChaos(g)
    ELSE IF r.noChaos = "true" THEN NoChaos(g)
    ELSE LatencyThenError(cfg, g, r, cfg.InstancesLatencyRange,
                          cfg.InstancesErrorRate)

\* ApplyMetadataChaos
ApplyMetadataChaos(cfg, g, r) ==
    IF ~cfg.Enabled THEN NoChaos(g)
    ELSE IF r.noChaos = "true" THEN NoChaos(g)
    ELSE LatencyThenError(cfg, g, r, cfg.MetadataLatencyRange,
                          cfg.MetadataErrorRate)

\* The error types and weights of the configurations: the default shape
\* (one weight 0), weights missing, no types, weights summing to 0, and a
\* status code maybeInjectError has no case for.
ErrorProfiles ==
    { << <<503, 500, 429>>, <<2, 0, 1>> >>,
      << <<503, 429>>, <<>> >>,
      << <<>>, <<>> >>,
      << <<429, 503>>, <<0, 0>> >>,
      << <<418>>, <<1>> >> }

\* Latency ranges <<global, projects, instances, metadata>>.
LatencyProfiles ==
    { << NilRange, LatencyRange(1, 1), LatencyRange(0, 2), NilRange >>,
      << LatencyRange(2, 2), NilRange, LatencyRange(0, 2), NilRange >>,
      << LatencyRange(2, 3), LatencyRange(0, 0), NilRange, LatencyRange(1, 2) >> }

\* Error rates <<projects, projects GET, instances, metadata>>.
RateProfiles ==
    { << Scale, 0, 1, 0 >>,
      << 1, Scale, -1, Scale >>,
      << 0, 1, Scale, 1 >> }

\* The configurations: one profile of each kind, varied one kind at a time.
Profiles ==
    LET l1 == << NilRange, LatencyRange(1, 1), LatencyRange(0, 2), NilRange >>
        r1 == << Scale, 0, 1, 0 >>
        e1 == << <<503, 500, 429>>, <<2, 0, 1>> >>
    IN  ({l1} \X {r1} \X ErrorProfiles)
          \cup (LatencyProfiles \X {r1} \X {e1})
          \cup ({l1} \X RateProfiles \X {e1})

\* chaos.Config
Config(enabled, seed, prof) ==
    [Enabled |-> enabled, Seed |-> seed,
     GlobalLatencyRange |-> prof[1][1],
     ProjectsLatencyRange |-> prof[1][2],
     InstancesLatencyRange |-> prof[1][3],
     MetadataLatencyRange |-> prof[1][4],
     ProjectsErrorRate |-> prof[2][1],
     ProjectsGetErrorRate |-> prof[2][2],
     InstancesErrorRate |-> prof[2][3],
     MetadataErrorRate |-> prof[2][4],
     ErrorTypes |-> prof[3][1],
     ErrorWeights |-> prof[3][2]]

Configs == { Config(en, seed, prof) : en \in BOOLEAN, seed \in Seeds, prof \in Profiles }

\* The configuration of a server started without chaos flags.
DefaultConfig ==
    Config(FALSE, [i \in 1..StreamLen |-> 0],
           << << NilRange, NilRange, NilRange, NilRange >>,
              << 0, 0, 0, 0 >>,
              << <<503, 500, 429>>, <<3, 2, 1>> >> >>)

\* What an Apply call reads of a request: the X-Nah-No-Chaos header, the
\* X-Nah-Latency header, and the time after which its context is done
\* (-1: never).
ChaosRequests ==
    [noChaos : {"", "true"}, latency : {"", "0", "2", "x"}, ctxDone : {-1, 0}]

ProjectsMethods == { "GET", "POST" }

\* ---------------------------------------------------------------- state
VARIABLES
    store,   \* the metadata table: a set of rows [id, path, value]
    proc,    \* per request slot: position, request, locals, response
    config,  \* the chaos configuration the engine was built with
    rng,     \* the engine's generator
    call,    \* the last Apply call on the engine: its request and outcome
    twin,    \* a second engine built from the same config: its generator
             \* and its last Apply call
    client   \* the Go client's do(): its position, the body reader, the
             \* attempts made so far

vars == <<store, proc, config, rng, call, twin, client>>

chaosVars == <<config, rng, call, twin>>

\* No Apply call has been made yet.
NoCall ==
    [category |-> "", method |-> "",
     req |-> [noChaos |-> "", latency |-> "", ctxDone |-> -1],
     err |-> "", latency |-> 0, slept |-> 0, ldraws |-> 0, edraws |-> 0]

\* The client is not inside do().
NoDo == [pc |-> "idle", reader |-> <<>>, attempt |-> 0, sent |-> <<>>, resps |-> <<>>]

Idle == [pc |-> "idle", method |-> "", id |-> <<>>, provided |-> "",
         body |-> "", m |-> NoRow, status |-> 0, out |-> ""]

Free(p) == proc[p].pc \in {"idle", "done"}

\* A request as it enters its handler.
Req(method, id, provided, body) ==
    [pc |-> "start", method |-> method, id |-> id, provided |-> provided,
     body |-> body, m |-> NoRow, status |-> 0, out |-> ""]

Respond(r, status, out) == [r EXCEPT !.pc = "done", !.status = status, !.out = out]

\* The path a request's repository calls work on.
TargetPath(r) ==
    IF r.method \in {"LOCK", "UNLOCK"} THEN tfStateLockPath(r.id)
    ELSE IF r.method = "CreateMetadata" THEN r.id
    ELSE tfStatePath(r.id)

\* The status a handler answers with when its operation succeeds.
SuccessStatus(r) ==
    IF r.method = "CreateMetadata" THEN 201
    ELSE IF r.method = "DeleteMetadata" THEN 204
    ELSE 200

\* writeError: the status of a domain error code.
StatusOf(err) ==
    CASE err = "NOT_FOUND"             -> 404
      [] err = "ALREADY_EXISTS"        -> 409
      [] err = "INVALID_INPUT"         -> 400
      [] err = "FOREIGN_KEY_VIOLATION" -> 400
      [] err = "UNAUTHORIZED"          -> 401
      [] err = "TOO_MANY_REQUESTS"     -> 429
      [] err = "SERVICE_UNAVAILABLE"   -> 503
      [] OTHER                         -> 500

\* uuid.New(): an id no row has and no request in flight still refers to.
NewUUID ==
    LET used == { r.id : r \in store } \cup { proc[q].m : q \in Procs }
    IN  IF UUIDs \ used = {} THEN NoRow
        ELSE CHOOSE u \in UUIDs \ used : \A v \in UUIDs \ used : u <= v

Init ==
    /\ store = {}
    /\ proc = [p \in Procs |-> Idle]
    /\ config = DefaultConfig
    /\ rng = NewChaosServiceWithConfig(config)
    /\ call = NoCall
    /\ twin = [rng |-> NewChaosServiceWithConfig(config), call |-> NoCall]
    /\ client = NoDo

\* ------------------------------------------------------------- handlers
\* authenticate fails: writeError answers 401 before anything else runs.
Unauthorized(p, method, id) ==
    /\ Free(p)
    /\ proc' = [proc EXCEPT ![p] =
                  Respond(Req(method, id, "", ""), 401, "UNAUTHORIZED")]
    /\ UNCHANGED store
    /\ UNCHANGED <<chaosVars, client>>

\* TFStateGet
TFStateGet(p, id) ==
    /\ Free(p)
    /\   LET r == Req("GET", id, "", "")
             g == GetTFState(store, id)
         IN  proc' = [proc EXCEPT ![p] =
                        IF g.found THEN Respond(r, 200, g.value)
                        ELSE Respond(r, 404, "")]
    /\ UNCHANGED store
    /\ UNCHANGED <<chaosVars, client>>

\* TFStatePost up to the lock check.
TFStatePost(p, id, provided, body) ==
    /\ Free(p)
    /\   LET r == Req("POST", id, provided, body)
         IN  proc' = [proc EXCEPT ![p] =
                        IF LockRefuses(store, id, provided)
                        THEN Respond(r, 423, GetTFStateLock(store, id).raw)
                        ELSE [r EXCEPT !.pc = "set_list"]]
    /\ UNCHANGED store
    /\ UNCHANGED <<chaosVars, client>>

\* TFStateDelete up to the lock check.
TFStateDelete(p, id, provided) ==
    /\ Free(p)
    /\   LET r == Req("DELETE", id, provided, "")
         IN  proc' = [proc EXCEPT ![p] =
                        IF LockRefuses(store, id, provided)
                        THEN Respond(r, 423, GetTFStateLock(store, id).raw)
                        ELSE [r EXCEPT !.pc = "del_list"]]
    /\ UNCHANGED store
    /\ UNCHANGED <<chaosVars, client>>

\* A TFStateLock that answers 423 with the request body instead of the
\* stored payload.
TFStateLock_EchoBody(p, id, body) ==
    /\ Free(p)
    /\   LET r  == Req("LOCK", id, "", body)
             ms == metadataByExactPath(store, tfStateLockPath(id))
         IN  proc' = [proc EXCEPT ![p] =
                        IF ~ValidLockPayload(body)
                        THEN Respond(r, 400, "INVALID_INPUT")
                        ELSE IF ms # {}
                        THEN Respond(r, 423, body)
                        ELSE [r EXCEPT !.pc = "crt_exists"]]
    /\ UNCHANGED store
    /\ UNCHANGED <<chaosVars, client>>

\* TFStateLock: payload validation, then TryLockTFState's lookup.
TFStateLock(p, id, body) ==
    /\ Free(p)
    /\   LET r  == Req("LOCK", id, "", body)
             ms == metadataByExactPath(store, tfStateLockPath(id))
         IN  proc' = [proc EXCEPT ![p] =
                        IF ~ValidLockPayload(body)
                        THEN Respond(r, 400, "INVALID_INPUT")
                        ELSE IF ms # {}
                        THEN Respond(r, 423, (CHOOSE x \in ms : TRUE).value)
                        ELSE [r EXCEPT !.pc = "crt_exists"]]
    /\ UNCHANGED store
    /\ UNCHANGED <<chaosVars, client>>

\* A TFStateUnlock that refuses to remove a lock it cannot parse.
TFStateUnlock_Strict(p, id, provided) ==
    /\ Free(p)
    /\   LET r == Req("UNLOCK", id, provided, "")
             l == GetTFStateLock(store, id)
         IN  proc' = [proc EXCEPT ![p] =
                        IF ~l.found THEN Respond(r, 200, "")
                        ELSE IF l.parsed /\ provided = l.ID
                        THEN [r EXCEPT !.pc = "del_list"]
                        ELSE Respond(r, 409, l.raw)]
    /\ UNCHANGED store
    /\ UNCHANGED <<chaosVars, client>>

\* TFStateUnlock up to the decision on the current lock.
TFStateUnlock(p, id, provided) ==
    /\ Free(p)
    /\   LET r == Req("UNLOCK", id, provided, "")
             l == GetTFStateLock(store, id)
         IN  proc' = [proc EXCEPT ![p] =
                        IF ~l.found THEN Respond(r, 200, "")
                        ELSE IF ~l.parsed \/ provided = l.ID
                        THEN [r EXCEPT !.pc = "del_list"]
                        ELSE Respond(r, 409, l.raw)]
    /\ UNCHANGED store
    /\ UNCHANGED <<chaosVars, client>>

\* ------------------------------------------------- service and repository
\* A SetTFState without the update branch: it always creates.
SetTFState_AlwaysCreate(p) ==
    /\ proc[p].pc = "set_list"
    /\ proc' = [proc EXCEPT ![p] = [@ EXCEPT !.pc = "crt_exists"]]
    /\ UNCHANGED store
    /\ UNCHANGED <<chaosVars, client>>

\* SetTFState: metadataByExactPath, then Create or Update.
SetTFState(p) ==
    /\ proc[p].pc = "set_list"
    /\ LET ms == metadataByExactPath(store, TargetPath(proc[p]))
       IN  proc' = [proc EXCEPT ![p] =
                      IF ms = {} THEN [@ EXCEPT !.pc = "crt_exists"]
                      ELSE [@ EXCEPT !.pc = "upd_get",
                                     !.m = (CHOOSE x \in ms : TRUE).id]]
    /\ UNCHANGED store
    /\ UNCHANGED <<chaosVars, client>>

\* A DeleteTFState / UnlockTFState that reports a missing entry as NotFound.
DeleteOrUnlockTFState_NotFound(p) ==
    /\ proc[p].pc = "del_list"
    /\ LET ms == metadataByExactPath(store, TargetPath(proc[p]))
       IN  proc' = [proc EXCEPT ![p] =
                      IF ms = {} THEN Respond(@, 404, "NOT_FOUND")
                      ELSE [@ EXCEPT !.pc = "del_get",
                                     !.m = (CHOOSE x \in ms : TRUE).id]]
    /\ UNCHANGED store
    /\ UNCHANGED <<chaosVars, client>>

\* DeleteTFState / UnlockTFState: metadataByExactPath, then Delete.
DeleteOrUnlockTFState(p) ==
    /\ proc[p].pc = "del_list"
    /\ LET ms == metadataByExactPath(store, TargetPath(proc[p]))
       IN  proc' = [proc EXCEPT ![p] =
                      IF ms = {} THEN Respond(@, 200, "")
                      ELSE [@ EXCEPT !.pc = "del_get",
                                     !.m = (CHOOSE x \in ms : TRUE).id]]
    /\ UNCHANGED store
    /\ UNCHANGED <<chaosVars, client>>

\* MetadataRepository.Create: the pathExists query.
CreatePathExists(p) ==
    /\ proc[p].pc = "crt_exists"
    /\ proc' = [proc EXCEPT ![p] =
                  IF pathExists(store, TargetPath(@))
                  THEN Respond(@, 409, "ALREADY_EXISTS")
                  ELSE [@ EXCEPT !.pc = "crt_insert"]]
    /\ UNCHANGED store
    /\ UNCHANGED <<chaosVars, client>>

\* MetadataRepository.Create: the INSERT statement.
CreateInsert(p) ==
    /\ proc[p].pc = "crt_insert"
    /\ IF UniquePathOK(store, TargetPath(proc[p]))
       THEN /\ NewUUID # NoRow
            /\ store' = store \cup { [id |-> NewUUID,
                                      path |-> TargetPath(proc[p]),
                                      value |-> proc[p].body] }
            /\ proc' = [proc EXCEPT ![p] = Respond(@, SuccessStatus(@), "")]
       ELSE /\ proc' = [proc EXCEPT ![p] = Respond(@, 500, "INTERNAL_ERROR")]
            /\ UNCHANGED store
    /\ UNCHANGED <<chaosVars, client>>

\* MetadataRepository.Update: the GetByID query.
UpdateGetByID(p) ==
    /\ proc[p].pc = "upd_get"
    /\ proc' = [proc EXCEPT ![p] =
                  IF GetByID(store, @.m) = {}
                  THEN [Respond(@, 404, "NOT_FOUND") EXCEPT !.m = NoRow]
                  ELSE [@ EXCEPT !.pc = "upd_exec"]]
    /\ UNCHANGED store
    /\ UNCHANGED <<chaosVars, client>>

\* MetadataRepository.Update: the UPDATE statement, WHERE id = ?. It writes
\* back the path read by GetByID, which no tfstate request changes, and the
\* new value; matching no row is not an error.
UpdateExec(p) ==
    /\ proc[p].pc = "upd_exec"
    /\ store' = { IF r.id = proc[p].m THEN [r EXCEPT !.value = proc[p].body]
                  ELSE r : r \in store }
    /\ proc' = [proc EXCEPT ![p] = [Respond(@, 200, "") EXCEPT !.m = NoRow]]
    /\ UNCHANGED <<chaosVars, client>>

\* MetadataRepository.Delete: the GetByID query.
DeleteGetByID(p) ==
    /\ proc[p].pc = "del_get"
    /\ proc' = [proc EXCEPT ![p] =
                  IF GetByID(store, @.m) = {}
                  THEN [Respond(@, 404, "NOT_FOUND") EXCEPT !.m = NoRow]
                  ELSE [@ EXCEPT !.pc = "del_exec"]]
    /\ UNCHANGED store
    /\ UNCHANGED <<chaosVars, client>>

\* MetadataRepository.Delete: the DELETE statement.
DeleteExec(p) ==
    /\ proc[p].pc = "del_exec"
    /\ store' = { r \in store : r.id # proc[p].m }
    /\ proc' = [proc EXCEPT ![p] = [Respond(@, SuccessStatus(@), "") EXCEPT !.m = NoRow]]
    /\ UNCHANGED <<chaosVars, client>>

\* ------------------------------------------------------- chaos-affected calls
\* The record of an Apply call: what was asked and what came back.
Outcome(category, method, r, res) ==
    [category |-> category, method |-> method, req |-> r,
     err |-> res.err, latency |-> res.latency, slept |-> res.slept,
     ldraws |-> res.ldraws, edraws |-> res.edraws]

\* A projects handler calls ApplyProjectsChaos with its method.
ProjectsChaos(method, r) ==
    /\ call = NoCall
    /\ LET res == ApplyProjectsChaos(config, rng, r, method)
       IN  /\ rng' = res.rng
           /\ call' = Outcome("projects", method, r, res)
    /\ UNCHANGED <<client, store, proc, config, twin>>

\* An instances handler calls ApplyInstancesChaos.
InstancesChaos(r) ==
    /\ call = NoCall
    /\ LET res == ApplyInstancesChaos(config, rng, r)
       IN  /\ rng' = res.rng
           /\ call' = Outcome("instances", "", r, res)
    /\ UNCHANGED <<client, store, proc, config, twin>>

\* A metadata handler calls ApplyMetadataChaos.
MetadataChaos(r) ==
    /\ call = NoCall
    /\ LET res == ApplyMetadataChaos(config, rng, r)
       IN  /\ rng' = res.rng
           /\ call' = Outcome("metadata", "", r, res)
    /\ UNCHANGED <<client, store, proc, config, twin>>

\* The handler is through with the result of its Apply call: it has written
\* the injected error or gone on to its operation, and the engine is free
\* for the next call.
ChaosReturn ==
    /\ call # NoCall
    /\ call' = NoCall
    /\ UNCHANGED <<client, store, proc, config, rng, twin>>

\* A second engine that draws from a generator its seed does not determine.
TwinReplay_OwnSeed ==
    /\ call # NoCall
    /\ twin.call = NoCall
    /\ \E s \in Seeds :
         LET g   == IF twin.rng.live THEN [twin.rng EXCEPT !.src = s] ELSE twin.rng
             res == IF call.category = "projects"
                    THEN ApplyProjectsChaos(config, g, call.req, call.method)
                    ELSE IF call.category = "instances"
                    THEN ApplyInstancesChaos(config, g, call.req)
                    ELSE ApplyMetadataChaos(config, g, call.req)
         IN  twin' = [rng |-> [res.rng EXCEPT !.src = twin.rng.src],
                      call |-> Outcome(call.category, call.method, call.req, res)]
    /\ UNCHANGED <<client, store, proc, config, rng, call>>

\* The second engine is given the call the first one has just answered:
\* the same category, method and headers.
TwinReplay ==
    /\ call # NoCall
    /\ twin.call = NoCall
    /\ LET res == IF call.category = "projects"
                  THEN ApplyProjectsChaos(config, twin.rng, call.req, call.method)
                  ELSE IF call.category = "instances"
                  THEN ApplyInstancesChaos(config, twin.rng, call.req)
                  ELSE ApplyMetadataChaos(config, twin.rng, call.req)
       IN  twin' = [rng |-> res.rng,
                    call |-> Outcome(call.category, call.method, call.req, res)]
    /\ UNCHANGED <<client, store, proc, config, rng, call>>

\* Both engines are through with the call and free for the next one.
TwinReturn ==
    /\ twin.call # NoCall
    /\ call' = NoCall
    /\ twin' = [twin EXCEPT !.call = NoCall]
    /\ UNCHANGED <<client, store, proc, config, rng>>

\* A request without chaos headers whose context stays live.
PlainRequest == [noChaos |-> "", latency |-> "", ctxDone |-> -1]

\* Every state the generator's memory can hold.
GenStates == { [live |-> TRUE, src |-> s, pos |-> k] : s \in Seeds, k \in 1..StreamLen }

\* An instances handler, on its own goroutine, calls ApplyInstancesChaos and
\* reaches the first use of c.rng: it reads the generator's state. A call
\* that makes no draw returns at once.
InstancesEnter(p) ==
    /\ Free(p)
    /\ LET res == ApplyInstancesChaos(config, rng, PlainRequest)
           q   == Req("ApplyInstancesChaos", <<>>, "", "")
       IN  proc' = [proc EXCEPT ![p] =
                      IF res.ldraws + res.edraws = 0
                      THEN Respond(q, 200, "")
                      ELSE [q EXCEPT !.pc = "rng_read", !.m = rng.pos]]
    /\ UNCHANGED store
    /\ UNCHANGED <<chaosVars, client>>

\* The call's draws are done and the generator's state is written back; the
\* handler answers with the injected error or goes on (200). No lock is held
\* between InstancesEnter and here: if another call used the generator in
\* the meantime or is using it now, the unsynchronized reads and writes of
\* rand.Rand leave any values drawn and any generator state behind.
InstancesLeave(p) ==
    /\ proc[p].pc = "rng_read"
    /\ LET raced == \/ rng.pos # proc[p].m
                    \/ \E q \in Procs \ {p} : proc[q].pc = "rng_read"
           seq   == ApplyInstancesChaos(config, rng, PlainRequest)
           errs  == IF raced
                    THEN { ApplyInstancesChaos(config, g, PlainRequest).err :
                             g \in GenStates }
                    ELSE { seq.err }
       IN  /\ \E err \in errs :
                proc' = [proc EXCEPT ![p] =
                           [(IF err # "" THEN Respond(@, StatusOf(err), err)
                             ELSE Respond(@, 200, ""))
                            EXCEPT !.m = NoRow]]
           /\ rng' \in (IF raced THEN GenStates ELSE {seq.rng})
    /\ UNCHANGED <<client, store, config, call, twin>>

\* ApplyInstancesChaos up to the select that waits for the latency: the
\* latency is decided (and its offset drawn) and the call sleeps. A call
\* that has nothing to sleep runs to its end.
InstancesSleep(p, r) ==
    /\ Free(p)
    /\ LET q   == Req("ApplyInstancesChaos", <<>>, "", "")
           l   == applyLatency(config, rng, r, config.InstancesLatencyRange)
           res == ApplyInstancesChaos(config, rng, r)
       IN  IF config.Enabled /\ r.noChaos # "true" /\ l.latency > 0
           THEN /\ proc' = [proc EXCEPT ![p] = [q EXCEPT !.pc = "sleeping"]]
                /\ rng' = l.rng
                /\ call' = Outcome("instances", "", r,
                                   [err |-> "", latency |-> l.latency, slept |-> 0,
                                    ldraws |-> l.draws, edraws |-> 0])
           ELSE /\ proc' = [proc EXCEPT ![p] =
                              IF res.err # ""
                              THEN Respond(q, StatusOf(res.err), res.err)
                              ELSE Respond(q, 200, "")]
                /\ rng' = res.rng
                /\ call' = Outcome("instances", "", r, res)
    /\ UNCHANGED <<client, store, config, twin>>

\* A wake-up that returns the context's error when the sleep was cut short.
InstancesWake_ReturnsCtxErr(p) ==
    /\ proc[p].pc = "sleeping"
    /\ LET e     == maybeInjectError(config, rng, config.InstancesErrorRate)
           slept == Sleep(call.latency, call.req.ctxDone)
       IN  IF slept < call.latency
           THEN /\ call' = [call EXCEPT !.slept = slept, !.err = "INTERNAL_ERROR"]
                /\ rng' = rng
                /\ proc' = [proc EXCEPT ![p] = Respond(@, 500, "INTERNAL_ERROR")]
           ELSE /\ call' = [call EXCEPT !.slept = slept, !.err = e.err,
                                        !.edraws = e.draws]
                /\ rng' = e.rng
                /\ proc' = [proc EXCEPT ![p] =
                              IF e.err # "" THEN Respond(@, StatusOf(e.err), e.err)
                              ELSE Respond(@, 200, "")]
    /\ UNCHANGED <<client, store, config, twin>>

\* The select returns, on the timer or on ctx.Done, whichever comes first;
\* applyLatency returns nothing, and the call goes on to maybeInjectError
\* and returns its result to the handler.
InstancesWake(p) ==
    /\ proc[p].pc = "sleeping"
    /\ LET e == maybeInjectError(config, rng, config.InstancesErrorRate)
       IN  /\ call' = [call EXCEPT !.slept = Sleep(call.latency, call.req.ctxDone),
                                   !.err = e.err, !.edraws = e.draws]
           /\ rng' = e.rng
           /\ proc' = [proc EXCEPT ![p] =
                         IF e.err # "" THEN Respond(@, StatusOf(e.err), e.err)
                         ELSE Respond(@, 200, "")]
    /\ UNCHANGED <<client, store, config, twin>>

\* The requests of the metadata API: paths (the empty one is refused by the
\* service), a value, the ids a DELETE may name, and the chaos headers.
MetaPaths == { <<>>, <<"p">> }

MetaValues == { "v" }

MetaIDs == { 1, 2 }

MetaRequests == { r \in ChaosRequests : r.latency \in {"", "2"} /\ r.ctxDone = -1 }

\* A CreateMetadata that calls the engine but goes on to the service whatever
\* the engine returned.
CreateMetadata_IgnoresInjected(p, r, path, value) ==
    /\ Free(p)
    /\ LET res == ApplyMetadataChaos(config, rng, r)
           q   == Req("CreateMetadata", path, "", value)
       IN  /\ rng' = res.rng
           /\ call' = Outcome("metadata", "", r, res)
           /\ proc' = [proc EXCEPT ![p] =
                         IF path = <<>> THEN Respond(q, 400, "INVALID_INPUT")
                         ELSE [q EXCEPT !.pc = "crt_exists"]]
    /\ UNCHANGED <<client, store, config, twin>>

\* CreateMetadata (POST /v1/metadata) after authenticate: ApplyMetadataChaos,
\* writeError of what it injected, else Service.CreateMetadata up to the
\* repository's Create.
CreateMetadata(p, r, path, value) ==
    /\ Free(p)
    /\ LET res == ApplyMetadataChaos(config, rng, r)
           q   == Req("CreateMetadata", path, "", value)
       IN  /\ rng' = res.rng
           /\ call' = Outcome("metadata", "", r, res)
           /\ proc' = [proc EXCEPT ![p] =
                         IF res.err # "" THEN Respond(q, StatusOf(res.err), res.err)
                         ELSE IF path = <<>> THEN Respond(q, 400, "INVALID_INPUT")
                         ELSE [q EXCEPT !.pc = "crt_exists"]]
    /\ UNCHANGED <<client, store, config, twin>>

\* DeleteMetadata (DELETE /v1/metadata/{id}) after authenticate:
\* ApplyMetadataChaos, writeError of what it injected, else
\* Service.DeleteMetadata up to the repository's Delete.
DeleteMetadata(p, r, id) ==
    /\ Free(p)
    /\ LET res == ApplyMetadataChaos(config, rng, r)
           q   == Req("DeleteMetadata", <<>>, "", "")
       IN  /\ rng' = res.rng
           /\ call' = Outcome("metadata", "", r, res)
           /\ proc' = [proc EXCEPT ![p] =
                         IF res.err # "" THEN Respond(q, StatusOf(res.err), res.err)
                         ELSE [q EXCEPT !.pc = "del_get", !.m = id]]
    /\ UNCHANGED <<client, store, config, twin>>

\* --------------------------------------------------------------- client
\* Request bodies as do() builds them, in pieces the transport may read one
\* after the other; the empty one stands for a call without body.
ClientBodies == { <<>>, <<"x">>, <<"x", "y">> }

\* What an attempt ends in: a transport error (0) or a response status.
TransportError == 0

ClientOutcomes == { TransportError, 200, 404, 429, 503 }

\* NewClient: RetryMax 0 becomes 3.
DefaultRetryMax == 3

shouldRetry(statusCode) == statusCode = 429 \/ statusCode >= 500

\* do() up to the retry loop: the body is wrapped in one reader
\* (strings.NewReader or bytes.NewBuffer), made once.
Do(body) ==
    /\ client.pc \in {"idle", "done"}
    /\ client' = [pc |-> "send", reader |-> body, attempt |-> 0,
                  sent |-> <<>>, resps |-> <<>>]
    /\ UNCHANGED <<store, proc, chaosVars>>

\* One attempt: http.NewRequestWithContext wraps the reader as it stands,
\* so the request's body is what the reader has left unread; httpClient.Do
\* reads some or all of it and ends in a transport error or a response.
\* After a transport error or a retryable status the loop goes on while
\* attempt <= retryMax; any other response ends do().
Attempt(consumed, outcome) ==
    /\ client.pc = "send"
    /\ consumed \in 0..Len(client.reader)
    /\ LET more == (outcome = TransportError \/ shouldRetry(outcome))
                      /\ client.attempt + 1 <= DefaultRetryMax
       IN  client' = [pc |-> IF more THEN "backoff" ELSE "done",
                      reader |-> SubSeq(client.reader, consumed + 1,
                                        Len(client.reader)),
                      attempt |-> IF more THEN client.attempt + 1
                                  ELSE client.attempt,
                      sent |-> Append(client.sent, client.reader),
                      resps |-> Append(client.resps, outcome)]
    /\ UNCHANGED <<store, proc, chaosVars>>

\* The backoff before a retry has passed.
BackoffElapsed ==
    /\ client.pc = "backoff"
    /\ client' = [client EXCEPT !.pc = "send"]
    /\ UNCHANGED <<store, proc, chaosVars>>

\* The context is done during the backoff: do() returns ctx.Err().
BackoffCancelled ==
    /\ client.pc = "backoff"
    /\ client' = [client EXCEPT !.pc = "done"]
    /\ UNCHANGED <<store, proc, chaosVars>>

\* ----------------------------------------------------------- specification
\* Two clients at a time, every method, interleaved statement by statement.
Next ==
    \/ \E p \in Pair, method \in ConcMethods, id \in ConcIDs : Unauthorized(p, method, id)
    \/ \E p \in Pair, id \in ConcIDs : TFStateGet(p, id)
    \/ \E p \in Pair, id \in ConcIDs, provided \in ConcProvided, body \in ConcBodies :
         TFStatePost(p, id, provided, body)
    \/ \E p \in Pair, id \in ConcIDs, provided \in ConcProvided :
         TFStateDelete(p, id, provided)
    \/ \E p \in Pair, id \in ConcIDs, body \in ConcBodies : TFStateLock(p, id, body)
    \/ \E p \in Pair, id \in ConcIDs, provided \in ConcProvided :
         TFStateUnlock(p, id, provided)
    \/ \E p \in Pair : SetTFState(p)
    \/ \E p \in Pair : DeleteOrUnlockTFState(p)
    \/ \E p \in Pair : CreatePathExists(p)
    \/ \E p \in Pair : CreateInsert(p)
    \/ \E p \in Pair : UpdateGetByID(p)
    \/ \E p \in Pair : UpdateExec(p)
    \/ \E p \in Pair : DeleteGetByID(p)
    \/ \E p \in Pair : DeleteExec(p)

Spec == Init /\ [][Next]_vars

\* Any number of clients running the lock protocol (LOCK and UNLOCK).
NextLock ==
    \/ \E p \in Procs, id \in ConcIDs, body \in ConcBodies : TFStateLock(p, id, body)
    \/ \E p \in Procs, id \in ConcIDs, provided \in ConcProvided :
         TFStateUnlock(p, id, provided)
    \/ \E p \in Procs : DeleteOrUnlockTFState(p)
    \/ \E p \in Procs : CreatePathExists(p)
    \/ \E p \in Procs : CreateInsert(p)
    \/ \E p \in Procs : DeleteGetByID(p)
    \/ \E p \in Procs : DeleteExec(p)

SpecLock == Init /\ [][NextLock]_vars

\* Requests served one at a time: a single request slot, every input.
NextSeq ==
    \/ \E method \in Methods, id \in StateIDs : Unauthorized(1, method, id)
    \/ \E id \in StateIDs : TFStateGet(1, id)
    \/ \E id \in StateIDs, provided \in ProvidedIDs, body \in Bodies :
         TFStatePost(1, id, provided, body)
    \/ \E id \in StateIDs, provided \in ProvidedIDs : TFStateDelete(1, id, provided)
    \/ \E id \in StateIDs, body \in Bodies : TFStateLock(1, id, body)
    \/ \E id \in StateIDs, provided \in ProvidedIDs : TFStateUnlock(1, id, provided)
    \/ SetTFState(1)
    \/ DeleteOrUnlockTFState(1)
    \/ CreatePathExists(1)
    \/ CreateInsert(1)
    \/ UpdateGetByID(1)
    \/ UpdateExec(1)
    \/ DeleteGetByID(1)
    \/ DeleteExec(1)

SpecSeq == Init /\ [][NextSeq]_vars

\* The Chaos Engine alone: built from any configuration, then called by the
\* handlers of the three resource categories, one call at a time.
InitChaos ==
    /\ store = {}
    /\ proc = [p \in Procs |-> Idle]
    /\ config \in Configs
    /\ rng = NewChaosServiceWithConfig(config)
    /\ call = NoCall
    /\ twin = [rng |-> NewChaosServiceWithConfig(config), call |-> NoCall]
    /\ client = NoDo

NextChaos ==
    \/ \E method \in ProjectsMethods, r \in ChaosRequests : ProjectsChaos(method, r)
    \/ \E r \in ChaosRequests : InstancesChaos(r)
    \/ \E r \in ChaosRequests : MetadataChaos(r)
    \/ ChaosReturn

SpecChaos == InitChaos /\ [][NextChaos]_vars

\* The tfstate endpoints of a server whose Chaos Engine is enabled, served
\* one request at a time.
InitTF ==
    /\ store = {}
    /\ proc = [p \in Procs |-> Idle]
    /\ config \in { c \in Configs : c.Enabled }
    /\ rng = NewChaosServiceWithConfig(config)
    /\ call = NoCall
    /\ twin = [rng |-> NewChaosServiceWithConfig(config), call |-> NoCall]
    /\ client = NoDo

NextTF ==
    \/ \E method \in ConcMethods, id \in ConcIDs : Unauthorized(1, method, id)
    \/ \E id \in ConcIDs : TFStateGet(1, id)
    \/ \E id \in ConcIDs, provided \in ConcProvided, body \in ConcBodies :
         TFStatePost(1, id, provided, body)
    \/ \E id \in ConcIDs, provided \in ConcProvided : TFStateDelete(1, id, provided)
    \/ \E id \in ConcIDs, body \in ConcBodies : TFStateLock(1, id, body)
    \/ \E id \in ConcIDs, provided \in ConcProvided : TFStateUnlock(1, id, provided)
    \/ SetTFState(1)
    \/ DeleteOrUnlockTFState(1)
    \/ CreatePathExists(1)
    \/ CreateInsert(1)
    \/ UpdateGetByID(1)
    \/ UpdateExec(1)
    \/ DeleteGetByID(1)
    \/ DeleteExec(1)

SpecTF == InitTF /\ [][NextTF]_vars

\* Two engines built from the same configuration and given the same calls,
\* the second one a call behind the first.
NextTwin ==
    \/ \E method \in ProjectsMethods, r \in ChaosRequests : ProjectsChaos(method, r)
    \/ \E r \in ChaosRequests : InstancesChaos(r)
    \/ \E r \in ChaosRequests : MetadataChaos(r)
    \/ TwinReplay
    \/ TwinReturn

SpecTwin == InitChaos /\ [][NextTwin]_vars

\* Concurrent instances requests on a server whose Chaos Engine is enabled,
\* each on its own goroutine. One seed is enough to start from: a race
\* leaves any generator state behind.
InitRace ==
    /\ store = {}
    /\ proc = [p \in Procs |-> Idle]
    /\ config \in { c \in Configs : c.Enabled /\ c.Seed = DefaultConfig.Seed }
    /\ rng = NewChaosServiceWithConfig(config)
    /\ call = NoCall
    /\ twin = [rng |-> NewChaosServiceWithConfig(config), call |-> NoCall]
    /\ client = NoDo

NextRace ==
    \/ \E p \in Pair : InstancesEnter(p)
    \/ \E p \in Pair : InstancesLeave(p)

SpecRace == InitRace /\ [][NextRace]_vars

\* Instances requests, one at a time, with the latency sleep as a state of
\* its own. The timer of time.After fires and the goroutine is scheduled, so
\* a sleeping call is woken: weak fairness on the wake-up.
NextSleep ==
    \/ \E r \in ChaosRequests : InstancesSleep(1, r)
    \/ InstancesWake(1)

SpecSleep == InitChaos /\ [][NextSleep]_vars /\ WF_vars(InstancesWake(1))

\* The Go client calling do(), one call at a time.
NextClient ==
    \/ \E body \in ClientBodies : Do(body)
    \/ \E consumed \in 0..Len(client.reader), outcome \in ClientOutcomes :
         Attempt(consumed, outcome)
    \/ BackoffElapsed
    \/ BackoffCancelled

SpecClient == Init /\ [][NextClient]_vars

\* The metadata API of a server built from any configuration, served one
\* request at a time: each request passes the Chaos Engine on its way to the
\* repository.
NextMeta ==
    \/ \E path \in MetaPaths : Unauthorized(1, "CreateMetadata", path)
    \/ \E r \in MetaRequests, path \in MetaPaths, value \in MetaValues :
         CreateMetadata(1, r, path, value)
    \/ \E r \in MetaRequests, id \in MetaIDs : DeleteMetadata(1, r, id)
    \/ CreatePathExists(1)
    \/ CreateInsert(1)
    \/ DeleteGetByID(1)
    \/ DeleteExec(1)

SpecMeta == InitChaos /\ [][NextMeta]_vars

\* ------------------------------------------------------------------ claims
\* C1: among concurrent TryLockTFState calls on one state_id, a call succeeds
\* in creating the Lock Record (LOCK answered 200) only from a store that
\* holds no Lock Record for that id, and exactly one Lock Record for the id
\* exists once it has succeeded; so no second call succeeds while that record
\* is in place.
C1_OneLockCreator ==
    [][\A p \in Procs :
         (proc[p].method = "LOCK" /\ proc[p].pc = "crt_insert"
            /\ proc'[p].status = 200)
         => /\ \A r \in store : r.path # tfStateLockPath(proc[p].id)
            /\ Cardinality({ r \in store' :
                              r.path = tfStateLockPath(proc[p].id) }) = 1
            /\ \A q \in Procs \ {p} : proc'[q] = proc[q]]_vars

\* Two LOCK requests on the same id raced to the INSERT: one created the
\* Lock Record, the other failed on the UNIQUE constraint.
C1_Witness ==
    \E p, q \in Procs :
        /\ p # q
        /\ proc[p].method = "LOCK" /\ proc[q].method = "LOCK"
        /\ proc[p].id = proc[q].id
        /\ proc[p].pc = "done" /\ proc[p].status = 200
        /\ proc[q].pc = "done" /\ proc[q].status = 500
        /\ \E r \in store : r.path = tfStateLockPath(proc[p].id)

C3_LoserGets423 ==
    \A p \in Procs :
        (proc[p].method = "LOCK" /\ proc[p].pc = "done"
           /\ ValidLockPayload(proc[p].body) /\ proc[p].status # 200)
        => proc[p].status = 423

C5_LockEnforced ==
    [][LET r == proc[1]
           n == proc'[1]
           held(id, provided) ==
               \E x \in store :
                   /\ x.path = tfStateLockPath(id)
                   /\ JSONUnmarshal(x.value).ok
                   /\ provided # ""
                   /\ provided = JSONUnmarshal(x.value).ID
       IN  /\ (Free(1) /\ n.method \in {"POST", "DELETE"} /\ n.status # 401)
              => \A x \in store :
                   (x.path = tfStateLockPath(n.id) /\ JSONUnmarshal(x.value).ok)
                   => IF n.provided # "" /\ n.provided = JSONUnmarshal(x.value).ID
                      THEN n.pc # "done" /\ store' = store
                      ELSE /\ n.pc = "done" /\ n.status = 423
                           /\ n.out = x.value /\ store' = store
           /\ (r.method \in {"POST", "DELETE"} /\ ~Free(1) /\ held(r.id, r.provided))
              => /\ n.pc = "done" => n.status = 200
                 /\ (r.method = "POST" /\ n.pc = "done")
                    => GetTFState(store', r.id) = [found |-> TRUE, value |-> r.body]
                 /\ (r.method = "DELETE" /\ n.pc = "done")
                    => ~GetTFState(store', r.id).found]_vars

\* A POST naming another ID than the stored lock's was answered 423 with the
\* stored payload.
C5_Witness ==
    /\ proc[1].method = "POST" /\ proc[1].pc = "done" /\ proc[1].status = 423
    /\ proc[1].provided = "B" /\ proc[1].out = LockA
    /\ \E x \in store : x.path = tfStateLockPath(proc[1].id) /\ x.value = LockA

\* C6 (as claimed): while a Lock Record whose payload does not parse exists,
\* a POST or DELETE on that state_id is refused with 423.
C6_UnparseableLockRefuses ==
    (proc[1].method \in {"POST", "DELETE"} /\ proc[1].pc = "done"
       /\ proc[1].status # 401
       /\ \E x \in store : /\ x.path = tfStateLockPath(proc[1].id)
                           /\ ~JSONUnmarshal(x.value).ok)
    => proc[1].status = 423

\* C7: served one at a time, UNLOCK is answered 200 and leaves no Lock Record
\* when there is none, when the provided ID equals the stored ID, or when the
\* stored payload does not parse; it is answered 409 with the stored payload,
\* the store unchanged, exactly when the payload parses and the provided ID
\* differs from the stored ID.
C7_UnlockOutcome ==
    [][LET r == proc[1]
           n == proc'[1]
       IN  /\ (Free(1) /\ n.method = "UNLOCK" /\ n.status # 401)
              => LET rows == { x \in store : x.path = tfStateLockPath(n.id) }
                 IN  /\ store' = store
                     /\ rows = {} => (n.pc = "done" /\ n.status = 200)
                     /\ \A x \in rows :
                          IF JSONUnmarshal(x.value).ok
                             /\ n.provided # JSONUnmarshal(x.value).ID
                          THEN n.pc = "done" /\ n.status = 409 /\ n.out = x.value
                          ELSE n.pc = "del_list"
           /\ (r.method = "UNLOCK" /\ r.pc = "del_list")
              => (n.pc = "del_get" /\ store' = store)
           /\ (r.method = "UNLOCK" /\ r.pc = "del_get")
              => (n.pc = "del_exec" /\ store' = store)
           /\ (r.method = "UNLOCK" /\ r.pc = "del_exec")
              => /\ n.pc = "done" /\ n.status = 200
                 /\ \A x \in store' : x.path # tfStateLockPath(r.id)]_vars

\* An UNLOCK naming another ID than the stored lock's was answered 409 with
\* the stored payload, and the Lock Record is still there.
C7_Witness ==
    /\ proc[1].method = "UNLOCK" /\ proc[1].pc = "done" /\ proc[1].status = 409
    /\ proc[1].provided = "B" /\ proc[1].out = LockA
    /\ \E x \in store : x.path = tfStateLockPath(proc[1].id) /\ x.value = LockA

\* C8 (as claimed): a Lock Record is removed only by an UNLOCK on the same
\* state_id that supplied that record's ID or found its payload unparseable.
C8_RemovedOnlyByOwner ==
    [][\A id \in ConcIDs :
         \A x \in store :
            (x.path = tfStateLockPath(id) /\ x \notin store')
            => \E p \in Procs :
                  /\ proc[p].method = "UNLOCK" /\ proc[p].id = id
                  /\ proc[p].pc = "del_exec" /\ proc'[p].pc = "done"
                  /\ \/ ~JSONUnmarshal(x.value).ok
                     \/ proc[p].provided = JSONUnmarshal(x.value).ID]_vars

\* C9 (as claimed): once a Lock Record exists for a state_id its payload
\* never changes for as long as it exists.
C9_LockNeverMutated ==
    [][\A id \in StateIDs :
         \A x \in store, y \in store' :
            (x.path = tfStateLockPath(id) /\ y.path = tfStateLockPath(id))
            => y.value = x.value]_vars

\* C10: served one at a time, a POST that passes the lock check succeeds and
\* an immediately following GetTFState of the same state_id returns exactly
\* the body that was set, for a created and for an overwritten State Entry.
C10_SetThenGet ==
    (proc[1].method = "POST" /\ proc[1].pc = "done"
       /\ proc[1].status \notin {401, 423})
    => /\ proc[1].status = 200
       /\ GetTFState(store, proc[1].id) = [found |-> TRUE, value |-> proc[1].body]

\* A POST has been answered 200 and the State Entry holds its body.
C10_Witness ==
    /\ proc[1].method = "POST" /\ proc[1].pc = "done" /\ proc[1].status = 200
    /\ proc[1].body = Junk
    /\ GetTFState(store, proc[1].id) = [found |-> TRUE, value |-> Junk]

\* C11: served one at a time, DeleteTFState on a state_id without State Entry
\* succeeds and leaves the store as it is, and GetTFState then returns
\* NotFound; on an existing State Entry it removes exactly that entry and
\* succeeds, after which GetTFState returns NotFound, so a second Delete is
\* the no-op of the first case.
C11_DeleteIdempotent ==
    [][LET r == proc[1]
           n == proc'[1]
           rows == { x \in store : x.path = tfStatePath(r.id) }
       IN  /\ (r.method = "DELETE" /\ r.pc = "del_list")
              => /\ store' = store
                 /\ IF rows = {}
                    THEN /\ n.pc = "done" /\ n.status = 200
                         /\ ~GetTFState(store', r.id).found
                    ELSE n.pc = "del_get"
           /\ (r.method = "DELETE" /\ r.pc = "del_get")
              => (n.pc = "del_exec" /\ store' = store /\ rows # {})
           /\ (r.method = "DELETE" /\ r.pc = "del_exec")
              => /\ n.pc = "done" /\ n.status = 200
                 /\ rows # {}
                 /\ store' = store \ rows
                 /\ ~GetTFState(store', r.id).found]_vars

\* A DELETE on a state_id without State Entry was answered 200 and the rest
\* of the store, here the Lock Record it named, is still in place.
C11_Witness ==
    /\ proc[1].method = "DELETE" /\ proc[1].pc = "done" /\ proc[1].status = 200
    /\ proc[1].m = NoRow /\ proc[1].provided = "A"
    /\ ~GetTFState(store, proc[1].id).found
    /\ \E x \in store : x.path = tfStateLockPath(proc[1].id) /\ x.value = LockA

\* C12: a LOCK request whose body is not JSON, or whose ID is missing or
\* empty, is answered 400 InvalidInput in the step in which it arrives: the
\* answer does not depend on the store, no repository statement runs for it
\* and the store is unchanged.
C12_InvalidLockRejected ==
    [][LET n == proc'[1]
       IN  (Free(1) /\ n.method = "LOCK" /\ n.status # 401
              /\ (~JSONUnmarshal(n.body).ok \/ JSONUnmarshal(n.body).ID = ""))
           => /\ n = Respond(Req("LOCK", n.id, "", n.body), 400, "INVALID_INPUT")
              /\ store' = store]_vars

\* A LOCK whose payload is JSON without ID was answered 400 on a state_id
\* that has no Lock Record, and none was created.
C12_Witness ==
    /\ proc[1].method = "LOCK" /\ proc[1].pc = "done" /\ proc[1].status = 400
    /\ proc[1].body = NoID
    /\ store # {}
    /\ \A x \in store : x.path # tfStateLockPath(proc[1].id)

\* C13 (as claimed): in every interleaving the store holds at most one row
\* per path, and a Create whose path is held by a row when it acts fails
\* with AlreadyExists (409) and leaves the store unchanged.
C13_UniquePathAlreadyExists ==
    [][/\ \A x, y \in store' : x.path = y.path => x = y
       /\ \A p \in Pair :
            (proc[p].pc \in {"crt_exists", "crt_insert"}
               /\ proc'[p] # proc[p]
               /\ \E x \in store : x.path = TargetPath(proc[p]))
            => /\ proc'[p].pc = "done"
               /\ proc'[p].status = 409
               /\ proc'[p].out = "ALREADY_EXISTS"
               /\ store' = store]_vars

\* C14: the steps of SetTFState and DeleteTFState (the engine part of POST
\* and DELETE) decide on the State Entry's rows alone and leave the Lock
\* Record of the same state_id as it is, whether or not one exists; the
\* steps of LOCK and UNLOCK leave the State Entry of the same state_id as
\* it is.
C14_StateAndLockIndependent ==
    [][LET r == proc[1]
           n == proc'[1]
           sRows == { x \in store : x.path = <<"tfstate/">> \o r.id }
           lRows == { x \in store : x.path = <<"tfstate/">> \o r.id \o <<".lock">> }
           sRowsN == { x \in store' : x.path = <<"tfstate/">> \o r.id }
           lRowsN == { x \in store' : x.path = <<"tfstate/">> \o r.id \o <<".lock">> }
       IN  /\ (r.method \in {"POST", "DELETE"} /\ ~Free(1))
              => /\ lRowsN = lRows
                 /\ r.pc = "set_list"
                    => n.pc = (IF sRows = {} THEN "crt_exists" ELSE "upd_get")
                 /\ r.pc = "del_list"
                    => n.pc = (IF sRows = {} THEN "done" ELSE "del_get")
                 /\ r.pc \in {"set_list", "del_list"} /\ sRows # {}
                    => \E x \in sRows : n.m = x.id
                 /\ r.pc = "crt_exists" => (sRows = {} /\ n.pc = "crt_insert")
                 /\ r.pc \in {"upd_get", "del_get"} => n.pc # "done"
                 /\ n.pc = "done" => n.status = 200
           /\ (r.method \in {"LOCK", "UNLOCK"} /\ ~Free(1))
              => sRowsN = sRows]_vars

\* A LOCK has created the Lock Record of a state_id whose State Entry was
\* there before and still holds the same value.
C14_Witness ==
    /\ proc[1].method = "LOCK" /\ proc[1].pc = "done" /\ proc[1].status = 200
    /\ proc[1].id = <<"a">>
    /\ GetTFState(store, <<"a">>) = [found |-> TRUE, value |-> NoID]
    /\ GetTFStateLock(store, <<"a">>).raw = proc[1].body

\* C15 (as claimed): every 4xx or 5xx answer of a tfstate endpoint carries a
\* JSON error object, except a 423 or 409 that echoes a lock payload.
C15_ErrorsAreStructured ==
    (proc[1].pc = "done" /\ proc[1].status >= 400)
    => \/ proc[1].out \in ErrorCodes
       \/ (proc[1].status \in {423, 409} /\ proc[1].out \in Bodies)

\* C16 (as claimed): with chaos enabled, a tfstate request that has passed
\* authentication and entered its handler has been through an Apply call of
\* the Chaos Engine.
C16_TFStateThroughChaos ==
    (proc[1].pc # "idle" /\ proc[1].status # 401 /\ config.Enabled)
    => call # NoCall

\* C17: an engine built with Enabled = false has no generator, every Apply
\* call on it returns nil with no latency, no sleep and no draw, whatever
\* the request's headers and the configured ranges and rates, and its
\* configuration never changes, so it stays disabled.
C17_DisabledDoesNothing ==
    [][~config.Enabled
       => /\ ~rng.live
          /\ rng' = rng
          /\ config' = config
          /\ call'.err = ""
          /\ call'.latency = 0 /\ call'.slept = 0
          /\ call'.ldraws = 0 /\ call'.edraws = 0]_vars

\* A disabled engine configured with error rate 1.0 was called with a forced
\* latency header and returned nil without sleeping.
C17_Witness ==
    /\ ~config.Enabled
    /\ config.InstancesErrorRate = Scale
    /\ call.category = "instances"
    /\ call.req.latency = "2" /\ call.req.noChaos = ""
    /\ call.err = "" /\ call.slept = 0
    /\ ~rng.live

\* C18: with chaos enabled, an Apply call for a request whose X-Nah-No-Chaos
\* header is "true" returns nil with no latency, no sleep and no draw, the
\* generator left as it was, for every category and method, whatever the
\* configuration and the forced-latency header.
C18_BypassDoesNothing ==
    [][(config.Enabled /\ call'.category # "" /\ call'.req.noChaos = "true")
       => /\ rng' = rng
          /\ call'.err = ""
          /\ call'.latency = 0 /\ call'.slept = 0
          /\ call'.ldraws = 0 /\ call'.edraws = 0]_vars

\* An enabled engine with error rate 1.0 and a latency range for projects
\* was called with the bypass header and a forced latency and did nothing.
C18_Witness ==
    /\ config.Enabled
    /\ config.ProjectsErrorRate = Scale
    /\ config.ProjectsLatencyRange.set
    /\ call.category = "projects"
    /\ call.req.noChaos = "true" /\ call.req.latency = "2"
    /\ call.err = "" /\ call.slept = 0 /\ call.edraws = 0

\* C19 (as claimed): with chaos enabled and no bypass, a request whose
\* X-Nah-Latency header is a non-negative integer N, 0 included, gets the
\* latency N, sleeps N milliseconds unless its context is done first, and no
\* draw is made for latency.
C19_ForcedLatencyExact ==
    [][(config.Enabled /\ call'.category # "" /\ call'.req.noChaos # "true"
          /\ call'.req.latency \in {"0", "2"})
       => LET n == IF call'.req.latency = "0" THEN 0 ELSE 2
          IN  /\ call'.latency = n
              /\ call'.req.ctxDone < 0 => call'.slept = n
              /\ call'.ldraws = 0]_vars

\* C20: with chaos enabled and no bypass, a call whose error rate is 0.0 or
\* negative never returns an injected error, whatever the generator's next
\* draw, and a call whose error rate is 1.0 always returns one.
C20_RateZeroAndOne ==
    [][LET c == call'
           rate == CASE c.category = "projects" ->
                          IF c.method = "GET" /\ config.ProjectsGetErrorRate > 0
                          THEN config.ProjectsGetErrorRate
                          ELSE config.ProjectsErrorRate
                     [] c.category = "instances" -> config.InstancesErrorRate
                     [] OTHER -> config.MetadataErrorRate
       IN  (config.Enabled /\ c.category # "" /\ c.req.noChaos # "true")
           => /\ rate <= 0 => c.err = ""
              /\ rate >= Scale
                 => c.err \in {"TOO_MANY_REQUESTS", "INTERNAL_ERROR",
                               "SERVICE_UNAVAILABLE"}]_vars

\* A call with error rate 0.0 returned nil while the generator's next draw
\* is 0, the smallest draw there is.
C20_Witness ==
    /\ config.Enabled
    /\ config.MetadataErrorRate = 0
    /\ call.category = "metadata" /\ call.req.noChaos = ""
    /\ call.err = ""
    /\ rng.live /\ rng.src[rng.pos] = 0

\* C21: a metadata request that the Chaos Engine answers with an injected
\* error is finished at once with that error (its code and status), the
\* service is not called and the store is unchanged; when the engine returns
\* nil the request goes on to the service and the answer is the one the
\* service or the repository gave (400 for an empty path, 409 for a taken path,
\* 201 with the row created, 404 for a missing id, 204 with the row removed).
\* While the operation runs, the engine is not called again.
C21_InjectedErrorShortCircuits ==
    [][LET r == proc[1]
           n == proc'[1]
       IN  /\ (Free(1) /\ n.method \in {"CreateMetadata", "DeleteMetadata"}
                 /\ n.status # 401)
              => IF call'.err # ""
                 THEN /\ n.pc = "done"
                      /\ n.out = call'.err
                      /\ n.status = StatusOf(call'.err)
                      /\ n.status \in {429, 500, 503}
                      /\ store' = store
                 ELSE \/ n.pc \in {"crt_exists", "del_get"}
                      \/ /\ n.pc = "done" /\ n.id = <<>>
                         /\ n.method = "CreateMetadata"
                         /\ n.status = 400 /\ n.out = "INVALID_INPUT"
           /\ ~Free(1)
              => /\ call' = call /\ rng' = rng
                 /\ call.err = ""
                 /\ n.pc = "done" =>
                      CASE r.pc = "crt_exists" ->
                             /\ n.status = 409 /\ n.out = "ALREADY_EXISTS"
                             /\ pathExists(store, r.id)
                        [] r.pc = "crt_insert" ->
                             /\ n.status = 201
                             /\ \E x \in store' \ store :
                                  x.path = r.id /\ x.value = r.body
                        [] r.pc = "del_get" ->
                             /\ n.status = 404 /\ n.out = "NOT_FOUND"
                             /\ GetByID(store, r.m) = {}
                        [] r.pc = "del_exec" ->
                             /\ n.status = 204
                             /\ store' = { x \in store : x.id # r.m }
                        [] OTHER -> FALSE
           /\ store' # store => (~Free(1) /\ call.err = "")]_vars

\* A CreateMetadata was answered with an injected 503 by a server whose store
\* already holds a row created by an earlier request that chaos let through.
C21_Witness ==
    /\ proc[1].method = "CreateMetadata" /\ proc[1].pc = "done"
    /\ proc[1].status = 503 /\ proc[1].out = "SERVICE_UNAVAILABLE"
    /\ call.err = "SERVICE_UNAVAILABLE"
    /\ \E x \in store : x.path = proc[1].id

C23_CheckThenActAtomic ==
    [][\A p \in Pair :
         LET between == proc[p].pc \in {"crt_exists", "crt_insert", "upd_get",
                                        "upd_exec", "del_get", "del_exec"}
             rows(st) == { r \in st : r.path = TargetPath(proc[p]) }
         IN  /\ (between /\ proc'[p] = proc[p]) => rows(store') = rows(store)
             /\ (between /\ proc'[p].pc = "done")
                => proc'[p].out \notin {"ALREADY_EXISTS", "NOT_FOUND",
                                        "INTERNAL_ERROR"}]_vars

\* C24: for distinct state ids A and B, no step of a request on A creates,
\* changes or removes the State Entry or the Lock Record of B, and a GET on
\* A does not answer with a row that is the State Entry or Lock Record of B.
C24_DistinctIDsIsolated ==
    [][\A A \in StateIDs, B \in StateIDs :
         LET ofB(st) == { r \in st : r.path \in {tfStatePath(B), tfStateLockPath(B)} }
         IN  (A # B /\ proc'[1].id = A /\ proc'[1].method # "")
             => /\ ofB(store') = ofB(store)
                /\ (proc'[1].method = "GET" /\ proc'[1].status = 200
                      /\ proc' # proc)
                   => tfStatePath(A) \notin {tfStatePath(B), tfStateLockPath(B)}]_vars

\* C25: on a call that reaches error injection with a positive error rate,
\* an error is injected exactly when the generator's draw for it is strictly
\* less than the rate; the draw is the one after the latency draw, if the
\* latency step made one.
C25_InjectsIffDrawBelowRate ==
    [][LET c == call'
           rate == CASE c.category = "projects" ->
                          IF c.method = "GET" /\ config.ProjectsGetErrorRate > 0
                          THEN config.ProjectsGetErrorRate
                          ELSE config.ProjectsErrorRate
                     [] c.category = "instances" -> config.InstancesErrorRate
                     [] OTHER -> config.MetadataErrorRate
           g == IF c.ldraws = 1 THEN Advance(rng) ELSE rng
       IN  (config.Enabled /\ c.category # "" /\ c.req.noChaos # "true"
              /\ rate > 0)
           => (c.err # "" <=> Float64(g) < rate)]_vars

\* C26: when a call injects an error, the status code selected for it is a
\* member of the configured list if the list is non-empty. With as many
\* weights as codes and a positive total, it is the first code whose running
\* cumulative weight exceeds the draw, a draw in [0, total), and its weight
\* is not 0; with a weight list of another length it is the code at the drawn
\* index, an index within the list. The error returned is the one for that
\* code.
C26_SelectedCodeIsConfigured ==
    [][LET c       == call'
           g1      == IF c.ldraws = 1 THEN Advance(rng) ELSE rng
           g2      == Advance(g1)
           sel     == selectWeightedErrorType(config, g2)
           types   == config.ErrorTypes
           weights == config.ErrorWeights
           n       == Len(types)
           total   == Sum(weights)
           cum(i)  == Sum(SubSeq(weights, 1, i))
       IN  (c.category # "" /\ c.err # "")
           => /\ c.err = ErrorOf(sel.code)
              /\ c.edraws = 1 + sel.draws
              /\ rng' = sel.rng
              /\ n > 0 => \E i \in 1..n : types[i] = sel.code
              /\ (n > 0 /\ Len(weights) = n /\ total > 0)
                 => LET target == Intn(g2, total)
                    IN  /\ target \in 0..(total - 1)
                        /\ \E i \in 1..n :
                             /\ types[i] = sel.code
                             /\ weights[i] > 0
                             /\ target < cum(i)
                             /\ \A j \in 1..(i - 1) : target >= cum(j)
              /\ (n > 0 /\ Len(weights) # n)
                 => /\ Intn(g2, n) \in 0..(n - 1)
                    /\ sel.code = types[Intn(g2, n) + 1]]_vars

\* An error was injected under codes 503, 500, 429 with weights 2, 0, 1 and
\* the draw for the selection was 2: the code selected is 429, the third.
C26_Witness ==
    /\ call.err = "TOO_MANY_REQUESTS"
    /\ config.ErrorTypes = <<503, 500, 429>>
    /\ config.ErrorWeights = <<2, 0, 1>>
    /\ call.edraws = 2

\* C27: on a call without the X-Nah-Latency header that reaches the latency
\* step, the range applied is the category's range if it is configured, else
\* the global range, else none: with none the latency is 0, nothing is slept
\* and no draw is made; with a range [min,max] the latency lies in [min,max],
\* is min plus an offset drawn in [0, max-min] when max > min, and is min
\* with no draw when max = min.
C27_RangeLatency ==
    [][LET c        == call'
           resource == CASE c.category = "projects"  -> config.ProjectsLatencyRange
                         [] c.category = "instances" -> config.InstancesLatencyRange
                         [] OTHER                    -> config.MetadataLatencyRange
           applied  == IF resource.set THEN resource ELSE config.GlobalLatencyRange
           offset   == Intn(rng, applied.Max - applied.Min + 1)
       IN  (config.Enabled /\ c.category # "" /\ c.req.noChaos # "true"
              /\ c.req.latency = "")
           => IF ~applied.set
              THEN c.latency = 0 /\ c.slept = 0 /\ c.ldraws = 0
              ELSE /\ c.latency \in applied.Min..applied.Max
                   /\ applied.Max > applied.Min
                      => /\ c.ldraws = 1
                         /\ offset \in 0..(applied.Max - applied.Min)
                         /\ c.latency = applied.Min + offset
                   /\ applied.Max = applied.Min
                      => c.ldraws = 0 /\ c.latency = applied.Min]_vars

\* A metadata call took its latency from the metadata range [1,2], with the
\* global range [2,3] also configured, and the drawn offset was 1.
C27_Witness ==
    /\ call.category = "metadata" /\ call.req.latency = ""
    /\ call.req.noChaos = ""
    /\ config.MetadataLatencyRange = LatencyRange(1, 2)
    /\ config.GlobalLatencyRange = LatencyRange(2, 3)
    /\ call.latency = 2 /\ call.ldraws = 1

\* C28: at most one request at a time is between its first read and its last
\* write of the generator's state, and the generator's stream stays the one
\* its seed determines.
C28_GeneratorSerialized ==
    /\ Cardinality({ p \in Procs : proc[p].pc = "rng_read" }) <= 1
    /\ rng.live => rng.src = config.Seed

\* C29: a call whose latency sleep is ended by the request context (done
\* before the latency has passed) has slept only until then; whether the
\* sleep ended on the timer or on the context, the call then returns what
\* the error-injection step gives on the generator as it stands, nil or one
\* of the injected errors, and never an error of the context. Every sleeping
\* call returns.
C29_CancelledSleepProceeds ==
    /\ [][(proc[1].pc = "sleeping" /\ proc'[1].pc # "sleeping")
          => LET e   == maybeInjectError(config, rng, config.InstancesErrorRate)
                 cut == call.req.ctxDone >= 0 /\ call.req.ctxDone < call.latency
             IN  /\ proc'[1].pc = "done"
                 /\ call'.slept = (IF cut THEN call.req.ctxDone ELSE call.latency)
                 /\ cut => call'.slept < call.latency
                 /\ call'.err = e.err
                 /\ call'.edraws = e.draws
                 /\ rng' = e.rng
                 /\ e.err = "" => proc'[1].status = 200
                 /\ e.err # "" => (proc'[1].out = e.err
                                    /\ proc'[1].status = StatusOf(e.err))]_vars
    /\ (proc[1].pc = "sleeping") ~> (proc[1].pc = "done")

\* A call with a forced latency of 2 ms whose context was done at once slept
\* 0 ms and returned an injected error.
C29_Witness ==
    /\ proc[1].pc = "done" /\ proc[1].method = "ApplyInstancesChaos"
    /\ call.req.ctxDone = 0 /\ call.req.latency = "2"
    /\ call.latency = 2 /\ call.slept = 0
    /\ call.err # "" /\ proc[1].status = StatusOf(call.err)

\* C30: within one call of do(), every attempt sends the body the first
\* attempt sent; there are at most retryMax+1 attempts; and every attempt
\* but the last ended in a transport error, a 429 or a 5xx.
C30_RetriesResendBody ==
    /\ \A i \in 1..Len(client.sent) : client.sent[i] = client.sent[1]
    /\ Len(client.sent) <= DefaultRetryMax + 1
    /\ \A i \in 1..(Len(client.resps) - 1) :
          client.resps[i] = TransportError \/ shouldRetry(client.resps[i])
====
